---- MODULE Spec2Model ----
(***************************************************************************)
(* MindMate backend: the risk-classification and response-selection        *)
(* pipeline of src/main.py, src/safety_handler.py,                         *)
(* src/response_generator.py and src/nlp_pipeline.py.                      *)
(*                                                                         *)
(* Python str values are TLA+ strings; a character is a string of length   *)
(* one, obtained with SubSeq(s, i, i).                                     *)
(***************************************************************************)
EXTENDS Integers, Sequences, FiniteSets, TLC

(***************************************************************************)
(* Bounds of the model.                                                    *)
(***************************************************************************)
\* number of text fragments concatenated into a message given to assess_risk
MaxFrags == 3

(***************************************************************************)
(* Characters and the str methods the code uses.                           *)
(***************************************************************************)
LowerLetters ==
    {"a","b","c","d","e","f","g","h","i","j","k","l","m",
     "n","o","p","q","r","s","t","u","v","w","x","y","z"}

UpperLetters ==
    {"A","B","C","D","E","F","G","H","I","J","K","L","M",
     "N","O","P","Q","R","S","T","U","V","W","X","Y","Z"}

Digits == {"0","1","2","3","4","5","6","7","8","9"}

\* \w of the re module
WordChars == LowerLetters \cup UpperLetters \cup Digits \cup {"_"}

\* the characters str.strip() removes
Whitespace == {" ", "\t", "\n"}

Min(a, b) == IF a <= b THEN a ELSE b
Max(a, b) == IF a >= b THEN a ELSE b

CharAt(s, i) == SubSeq(s, i, i)

LowerChar(c) ==
    CASE c = "A" -> "a" [] c = "B" -> "b" [] c = "C" -> "c" [] c = "D" -> "d"
      [] c = "E" -> "e" [] c = "F" -> "f" [] c = "G" -> "g" [] c = "H" -> "h"
      [] c = "I" -> "i" [] c = "J" -> "j" [] c = "K" -> "k" [] c = "L" -> "l"
      [] c = "M" -> "m" [] c = "N" -> "n" [] c = "O" -> "o" [] c = "P" -> "p"
      [] c = "Q" -> "q" [] c = "R" -> "r" [] c = "S" -> "s" [] c = "T" -> "t"
      [] c = "U" -> "u" [] c = "V" -> "v" [] c = "W" -> "w" [] c = "X" -> "x"
      [] c = "Y" -> "y" [] c = "Z" -> "z" [] OTHER -> c

\* str.lower(): every character mapped, the two halves of the string in turn
RECURSIVE Lower(_)
Lower(s) ==
    IF Len(s) = 0 THEN ""
    ELSE IF Len(s) = 1 THEN LowerChar(s)
    ELSE LET h == Len(s) \div 2
         IN  Lower(SubSeq(s, 1, h)) \o Lower(SubSeq(s, h + 1, Len(s)))

\* the `in` operator on two str values
Contains(s, sub) ==
    \E i \in 1..(Len(s) - Len(sub) + 1) : SubSeq(s, i, i + Len(sub) - 1) = sub

\* seq[:n]
Take(seq, n) == SubSeq(seq, 1, Min(n, Len(seq)))

(***************************************************************************)
(* SafetyHandler: keyword tables.                                          *)
(***************************************************************************)
\* variant: the suicide category lacks the phrase "suicidal"
high_risk_keywords_without_suicidal ==
    << [category |-> "suicide",
        keywords |-> <<"suicide", "kill myself", "end my life", "don't want to live">>],
       [category |-> "self_harm",
        keywords |-> <<"self harm", "cut myself", "hurt myself", "injure",
                       "harm myself">>],
       [category |-> "extreme_despair",
        keywords |-> <<"can't take it anymore", "hopeless", "no point",
                       "nothing matters">>],
       [category |-> "abuse",
        keywords |-> <<"abusing me", "beat me", "hit me", "abuse", "violent">>],
       [category |-> "acute_crisis",
        keywords |-> <<"emergency", "urgent", "right now", "immediately">>] >>

high_risk_keywords ==
    << [category |-> "suicide",
        keywords |-> <<"suicide", "suicidal", "kill myself", "end my life",
                       "don't want to live">>],
       [category |-> "self_harm",
        keywords |-> <<"self harm", "cut myself", "hurt myself", "injure",
                       "harm myself">>],
       [category |-> "extreme_despair",
        keywords |-> <<"can't take it anymore", "hopeless", "no point",
                       "nothing matters">>],
       [category |-> "abuse",
        keywords |-> <<"abusing me", "beat me", "hit me", "abuse", "violent">>],
       [category |-> "acute_crisis",
        keywords |-> <<"emergency", "urgent", "right now", "immediately">>] >>

medium_risk_keywords ==
    << "depressed", "suicidal thoughts", "panic", "overwhelmed",
       "can't cope", "breakdown", "crisis", "scared", "terrified",
       "dying", "death", "toxic", "trapped" >>

\* risk_indicators[:5]
IndicatorLimit == 5

(***************************************************************************)
(* SafetyHandler._keyword_match: re.search(r'\b' + escape(kw) + r'\b').    *)
(***************************************************************************)
\* is the character at position p a \w character; the positions before the
\* first and after the last character count as non-word
IsWordAt(s, p) == p >= 1 /\ p <= Len(s) /\ CharAt(s, p) \in WordChars

\* \b between position p and position p + 1
WordBoundary(s, p) == IsWordAt(s, p) # IsWordAt(s, p + 1)

\* variant: the plain substring test of the except clause, keyword in message
_keyword_match_substring(message, keyword) == Contains(message, keyword)

_keyword_match(message, keyword) ==
    \E i \in 1..(Len(message) - Len(keyword) + 1) :
        /\ SubSeq(message, i, i + Len(keyword) - 1) = keyword
        /\ WordBoundary(message, i - 1)
        /\ WordBoundary(message, i + Len(keyword) - 1)

(***************************************************************************)
(* SafetyHandler.assess_risk.                                              *)
(***************************************************************************)
\* one `for keyword in keywords` loop, from index i on: an indicator
\* f"{tag}: {keyword}" is appended for every keyword that matches
RECURSIVE scan_keywords(_, _, _, _)
scan_keywords(message_lower, tag, keywords, i) ==
    IF i > Len(keywords) THEN << >>
    ELSE (IF _keyword_match(message_lower, keywords[i])
             THEN << tag \o ": " \o keywords[i] >>
             ELSE << >>)
         \o scan_keywords(message_lower, tag, keywords, i + 1)

\* the loop over high_risk_keywords.items(), from category c on
RECURSIVE scan_high_risk(_, _)
scan_high_risk(message_lower, c) ==
    IF c > Len(high_risk_keywords) THEN << >>
    ELSE scan_keywords(message_lower, high_risk_keywords[c].category,
                       high_risk_keywords[c].keywords, 1)
         \o scan_high_risk(message_lower, c + 1)

\* variant: the medium-risk loop runs whatever the high-risk loop found
scan_medium_risk_always(message_lower, found) ==
    found \o scan_keywords(message_lower, "medium_risk", medium_risk_keywords, 1)

\* the medium-risk loop, entered only when the list is still empty
scan_medium_risk(message_lower, found) ==
    IF found = << >>
        THEN scan_keywords(message_lower, "medium_risk", medium_risk_keywords, 1)
        ELSE found

\* variant: the message is scanned without message.lower()
scan_indicators_no_lower(message) ==
    scan_medium_risk(message, scan_high_risk(message, 1))

\* risk_indicators as it stands before the tier decision
scan_indicators(message) ==
    LET message_lower == Lower(message)
    IN  scan_medium_risk(message_lower, scan_high_risk(message_lower, 1))

CountWith(indicators, sub) ==
    Cardinality({i \in 1..Len(indicators) : Contains(indicators[i], sub)})

\* variant: the high tier looks for "suicide" only
risk_tier_suicide_only(indicators) ==
    IF /\ indicators # << >>
       /\ \E i \in 1..Len(indicators) : Contains(indicators[i], "suicide")
        THEN [risk_level |-> "high", is_high_risk |-> TRUE]
    ELSE IF CountWith(indicators, "medium_risk") >= 2
        THEN [risk_level |-> "medium", is_high_risk |-> FALSE]
    ELSE [risk_level |-> "low", is_high_risk |-> FALSE]

\* variant: the medium tier needs more than two medium_risk indicators
risk_tier_three_medium(indicators) ==
    IF /\ indicators # << >>
       /\ \E i \in 1..Len(indicators) :
              Contains(indicators[i], "suicide") \/ Contains(indicators[i], "self_harm")
        THEN [risk_level |-> "high", is_high_risk |-> TRUE]
    ELSE IF CountWith(indicators, "medium_risk") > 2
        THEN [risk_level |-> "medium", is_high_risk |-> FALSE]
    ELSE [risk_level |-> "low", is_high_risk |-> FALSE]

\* the if / elif / else that sets risk_level and is_high_risk
risk_tier(indicators) ==
    IF /\ indicators # << >>
       /\ \E i \in 1..Len(indicators) :
              Contains(indicators[i], "suicide") \/ Contains(indicators[i], "self_harm")
        THEN [risk_level |-> "high", is_high_risk |-> TRUE]
    ELSE IF CountWith(indicators, "medium_risk") >= 2
        THEN [risk_level |-> "medium", is_high_risk |-> FALSE]
    ELSE [risk_level |-> "low", is_high_risk |-> FALSE]

\* variant: the slice keeps the last five entries, risk_indicators[-5:]
risk_result_last_five(indicators) ==
    [is_high_risk    |-> risk_tier(indicators).is_high_risk,
     risk_level      |-> risk_tier(indicators).risk_level,
     risk_indicators |-> SubSeq(indicators,
                                Max(1, Len(indicators) - IndicatorLimit + 1),
                                Len(indicators))]

\* variant: the list is returned without the slice
risk_result_no_slice(indicators) ==
    [is_high_risk    |-> risk_tier(indicators).is_high_risk,
     risk_level      |-> risk_tier(indicators).risk_level,
     risk_indicators |-> indicators]

\* the returned dict
risk_result(indicators) ==
    [is_high_risk    |-> risk_tier(indicators).is_high_risk,
     risk_level      |-> risk_tier(indicators).risk_level,
     risk_indicators |-> Take(indicators, IndicatorLimit)]

\* No statement of the try body raises on a str, so the except clause, which
\* returns the low-risk default, is never entered.
assess_risk(message) == risk_result(scan_indicators(message))

(***************************************************************************)
(* SafetyHandler.get_crisis_response: a fixed text.  The pictograph and    *)
(* the bullet signs of the source text are written "(sos)" and "*".        *)
(***************************************************************************)
get_crisis_response ==
    "I'm concerned about what you're sharing. Your safety is important.\n\n"
    \o "If you're in immediate danger or having thoughts of self-harm, please reach out to emergency services or a crisis helpline right away:\n\n"
    \o "(sos) **Immediate Help Resources:**\n"
    \o "* **National Suicide Prevention Lifeline (US):** 988 (call or text)\n"
    \o "* **Crisis Text Line:** Text HOME to 741741\n"
    \o "* **International Association for Suicide Prevention:** https://www.iasp.info/resources/Crisis_Centres/\n"
    \o "* **Samaritans (UK):** 116 123\n"
    \o "* **Lifeline (Australia):** 13 11 14\n"
    \o "* **India Crisis Helpline:** 9152987821\n\n"
    \o "Please reach out to someone you trust - a friend, family member, or mental health professional. You're not alone in this.\n\n"
    \o "This chatbot is not a substitute for professional mental health care. Please speak with a licensed therapist or counselor."

(***************************************************************************)
(* Python values: a str, or None.                                          *)
(***************************************************************************)
PyNone == [t |-> "None", s |-> ""]
PyStr(x) == [t |-> "str", s |-> x]

\* truth value of `x` in a condition
Truthy(v) == v.t = "str" /\ v.s # ""

(***************************************************************************)
(* JSON values, as response.json() returns them.                           *)
(***************************************************************************)
JNull == [j |-> "null"]
JStr(x) == [j |-> "str", s |-> x]
JList(xs) == [j |-> "list", items |-> xs]
JDict(d) == [j |-> "dict", d |-> d]
NoKeys == [k \in {} |-> JNull]

\* d.get(key, default) on a dict
DictGet(v, key, default) == IF key \in DOMAIN v.d THEN v.d[key] ELSE default

(***************************************************************************)
(* More str methods.                                                       *)
(***************************************************************************)
\* index of the first character at or after i that is no whitespace
RECURSIVE FirstKept(_, _)
FirstKept(s, i) ==
    IF i > Len(s) THEN i
    ELSE IF CharAt(s, i) \in Whitespace THEN FirstKept(s, i + 1) ELSE i

\* index of the last character at or before i that is no whitespace
RECURSIVE LastKept(_, _)
LastKept(s, i) ==
    IF i < 1 THEN i
    ELSE IF CharAt(s, i) \in Whitespace THEN LastKept(s, i - 1) ELSE i

\* str.strip()
Strip(s) ==
    IF FirstKept(s, 1) > Len(s) THEN ""
    ELSE SubSeq(s, FirstKept(s, 1), LastKept(s, Len(s)))

\* s.split(sep)[-1]: what follows the last occurrence of sep, or all of s
SplitLast(s, sep) ==
    LET at == { i \in 1..(Len(s) - Len(sep) + 1) : SubSeq(s, i, i + Len(sep) - 1) = sep }
    IN  IF at = {} THEN s
        ELSE SubSeq(s, (CHOOSE i \in at : \A k \in at : i >= k) + Len(sep), Len(s))

RECURSIVE Repeat(_, _)
Repeat(s, n) ==
    IF n = 0 THEN ""
    ELSE IF n = 1 THEN s
    ELSE Repeat(s, n \div 2) \o Repeat(s, n - (n \div 2))

(***************************************************************************)
(* ResponseGenerator.                                                      *)
(***************************************************************************)
\* os.getenv(name, default) on an environment that maps names to str or None
GetEnv(env, name, default) == IF env[name].t = "None" THEN default ELSE env[name]

\* __init__: the provider and, for huggingface-api, the key
ResponseGenerator_init(env) ==
    LET provider == GetEnv(env, "LLM_PROVIDER", PyStr("huggingface-api")).s
    IN  IF provider = "huggingface-api"
            THEN [provider |-> provider, api_key |-> GetEnv(env, "HF_API_KEY", PyNone)]
        ELSE IF provider = "ollama"
            THEN [provider |-> provider, api_key |-> PyNone]
        ELSE [provider |-> "fallback", api_key |-> PyNone]

fallback_responses ==
    [NEGATIVE |-> <<
        "I hear that you're going through a difficult time. It's okay to feel this way, and I'm here to listen. What's been the most challenging part for you?",
        "Thank you for sharing that with me. Those feelings are valid, and many people experience what you're going through. Have you tried any coping strategies that have helped before?",
        "I can sense you're struggling right now. That takes courage to express. Remember that difficult feelings are temporary, even when they feel overwhelming.",
        "It sounds like you're dealing with a lot. While I can't provide medical advice, I encourage you to consider talking with a counselor or therapist who can offer professional support.",
        "I appreciate you opening up about this. Sometimes just acknowledging what we're feeling is an important first step. What would help you feel a little better right now?" >>,
     POSITIVE |-> <<
        "That sounds wonderful! It's great to hear positive energy from you. What's been contributing to this good feeling?",
        "I'm glad to hear that! Celebrating these moments is important. How are you planning to maintain this positive momentum?",
        "That's fantastic! Keep nurturing what's bringing you joy. What's one thing you appreciate about yourself right now?",
        "Your positive outlook is inspiring! Keep channeling that energy into things that matter to you.",
        "That's excellent! It sounds like things are moving in a good direction for you. What's helping you feel this way?" >>]

\* the indices random.choice may pick in a table
Choices == 1..Len(fallback_responses["POSITIVE"])

\* _generate_fallback_response; r is the pick of random.choice
_generate_fallback_response(user_message, sentiment, r) ==
    LET responses == IF sentiment \in DOMAIN fallback_responses
                        THEN fallback_responses[sentiment]
                        ELSE fallback_responses["POSITIVE"]
    IN  PyStr(responses[r])

\* response_text[:300]
ResponseLimit == 300

\* An outcome of requests.post: an exception (connection error, timeout), or
\* a response with a status code and a body.  The body is a JSON value, or
\* no JSON at all, in which case response.json() raises.
Raised(what) == [raised |-> TRUE, what |-> what, status |-> 0, is_json |-> FALSE, body |-> JNull]
Responded(status, is_json, body) ==
    [raised |-> FALSE, what |-> "", status |-> status, is_json |-> is_json, body |-> body]

\* the result of a try body: an exception, or a returned value
Throws == [exc |-> TRUE, ret |-> PyNone]
Returns(v) == [exc |-> FALSE, ret |-> v]

\* try body of _generate_with_huggingface, from the post on; a 200 whose
\* result is not a non-empty list runs off the end of the function
huggingface_try(o, r) ==
    IF o.raised THEN Throws
    ELSE IF o.status = 200 THEN
        IF ~o.is_json THEN Throws
        ELSE IF o.body.j = "list" /\ Len(o.body.items) > 0 THEN
            IF o.body.items[1].j # "dict" THEN Throws
            ELSE LET generated == DictGet(o.body.items[1], "generated_text", JStr(""))
                 IN  IF generated.j # "str" THEN Throws
                     ELSE Returns(PyStr(Take(Strip(SplitLast(generated.s, "Assistant:")),
                                             ResponseLimit)))
        ELSE Returns(PyNone)
    ELSE Returns(_generate_fallback_response("", "NEGATIVE", r))

_generate_with_huggingface(o, r) ==
    IF huggingface_try(o, r).exc
        THEN _generate_fallback_response("", "NEGATIVE", r)
        ELSE huggingface_try(o, r).ret

\* try body of _generate_with_ollama, from the post on
ollama_try(o, r) ==
    IF o.raised THEN Throws
    ELSE IF o.status = 200 THEN
        IF ~o.is_json THEN Throws
        ELSE IF o.body.j # "dict" THEN Throws
        ELSE LET text == DictGet(o.body, "response", JStr(""))
             IN  IF text.j # "str" THEN Throws
                 ELSE Returns(PyStr(Take(Strip(text.s), ResponseLimit)))
    ELSE Returns(_generate_fallback_response("", "NEGATIVE", r))

\* both except clauses return the same fallback
_generate_with_ollama(o, r) ==
    IF ollama_try(o, r).exc
        THEN _generate_fallback_response("", "NEGATIVE", r)
        ELSE ollama_try(o, r).ret

\* variant: the first branch does not ask for the key
backend_of_ignores_key(self) ==
    IF self.provider = "huggingface-api" THEN "huggingface"
    ELSE IF self.provider = "ollama" THEN "ollama"
    ELSE "none"

\* the backend generate_response posts to: the branch of its if / elif / else
backend_of(self) ==
    IF self.provider = "huggingface-api" /\ Truthy(self.api_key) THEN "huggingface"
    ELSE IF self.provider = "ollama" THEN "ollama"
    ELSE "none"

\* generate_response; o is the outcome of the post, r the pick of random.choice.
\* The two _generate_with_ methods catch every exception themselves and the
\* prompt builders raise none, so the except clause is never entered.
generate_response(self, user_message, sentiment, context, o, r) ==
    IF backend_of(self) = "huggingface" THEN _generate_with_huggingface(o, r)
    ELSE IF backend_of(self) = "ollama" THEN _generate_with_ollama(o, r)
    ELSE _generate_fallback_response(user_message, sentiment, r)

\* _build_user_prompt: the context followed by the instruction
_build_user_prompt(user_message, context) ==
    context \o "\n\nPlease respond warmly and supportively to the user's message. Remember to stay within your role as a wellness chatbot."

(***************************************************************************)
(* NLPPipeline.analyze_sentiment.  A score is in thousandths.  c is the    *)
(* outcome of the classifier call: an exception, or a label and a score.   *)
(***************************************************************************)
NeutralSentiment == [label |-> "NEUTRAL", score |-> 500]

\* the guard that returns the sentinel before the classifier is called
sentiment_skips_classifier(text) == text = "" \/ Len(Strip(text)) = 0

analyze_sentiment(text, c) ==
    IF sentiment_skips_classifier(text) THEN NeutralSentiment
    ELSE IF c.raised THEN NeutralSentiment
    ELSE [label |-> c.label, score |-> c.score]

(***************************************************************************)
(* main.py: helpers of the /chat handler.                                  *)
(***************************************************************************)
\* len(user_message) > 5000
MaxMessageLen == 5000

\* conversation_history[-10:]
HistoryLimit == 10

\* A conversation_history is None or a list of Message; a Message has a role
\* and a content.
NoHistory == [none |-> TRUE, items |-> << >>]
History(items) == [none |-> FALSE, items |-> items]

\* recent_history = conversation_history[-10:] if conversation_history else []
recent_history(conversation_history) ==
    IF conversation_history.none \/ conversation_history.items = << >> THEN << >>
    ELSE SubSeq(conversation_history.items,
                Max(1, Len(conversation_history.items) - HistoryLimit + 1),
                Len(conversation_history.items))

RECURSIVE format_lines(_)
format_lines(msgs) ==
    IF msgs = << >> THEN ""
    ELSE (IF Head(msgs).role = "user" THEN "User" ELSE "Assistant")
         \o ": " \o Head(msgs).content \o "\n" \o format_lines(Tail(msgs))

_format_conversation_context(conversation_history, current_message) ==
    "Recent conversation:\n"
    \o format_lines(recent_history(conversation_history))
    \o "Current user message: " \o current_message

_generate_summary(sentiment) ==
    IF sentiment = "NEGATIVE"
        THEN "User expressing difficult emotions - heightened empathy mode"
        ELSE "Conversation flowing normally - supportive mode"

\* Responses of the handler: a ChatResponse, or an HTTPException.
NoBody ==
    [user_message |-> "", sentiment |-> NeutralSentiment, is_high_risk |-> FALSE,
     risk_level |-> "", bot_response |-> "", conversation_summary |-> ""]

HTTPException(status_code, detail) ==
    [status |-> status_code, detail |-> detail, body |-> NoBody]

\* variant: the two checks are made on the message as received, before strip
validate_unstripped(request_message) ==
    IF request_message = "" THEN HTTPException(400, "Message cannot be empty")
    ELSE IF Len(request_message) > MaxMessageLen
        THEN HTTPException(400, "Message too long (max 5000 characters)")
    ELSE HTTPException(0, "")

\* user_message = request.message.strip() and the two checks on it: the
\* exception raised, or status 0 when the message passes
validate(request_message) ==
    LET stripped == Strip(request_message)
    IN  IF stripped = "" THEN HTTPException(400, "Message cannot be empty")
        ELSE IF Len(stripped) > MaxMessageLen
            THEN HTTPException(400, "Message too long (max 5000 characters)")
        ELSE HTTPException(0, "")

\* the text chat passes to analyze_sentiment
sentiment_input(request_, user_message_) == user_message_

\* variant: assess_risk is given the formatted conversation context
risk_input_with_context(request_, user_message_) ==
    _format_conversation_context(request_.conversation_history, user_message_)

\* the text chat passes to assess_risk
risk_input(request_, user_message_) == user_message_

\* variant: the crisis branch is never taken
after_risk_always_generate(risk_result_) == "generate"

\* the branch taken on risk_result['is_high_risk']
after_risk(risk_result_) == IF risk_result_.is_high_risk THEN "crisis" ELSE "generate"

\* step 5: ChatResponse(...).  bot_response is declared str: any other value
\* fails the validation of the model, and the except clause of the handler
\* turns that into the 500.
build_response(user_message, sentiment_result, risk_result_, bot_response) ==
    IF bot_response.t # "str"
        THEN HTTPException(500, "Internal server error processing your message")
    ELSE [status |-> 200, detail |-> "",
          body |-> [user_message |-> user_message,
                    sentiment |-> sentiment_result,
                    is_high_risk |-> risk_result_.is_high_risk,
                    risk_level |-> risk_result_.risk_level,
                    bot_response |-> bot_response.s,
                    conversation_summary |-> _generate_summary(sentiment_result.label)]]

(***************************************************************************)
(* Messages: concatenations of at most MaxFrags fragments.  The fragments  *)
(* carry phrases of every keyword table, in lower and upper case, the glue *)
(* that puts a phrase at a word boundary (" ", "!") or inside a larger     *)
(* word ("d"), and two fragments dense enough to overflow the indicator    *)
(* limit.                                                                  *)
(***************************************************************************)
RiskFragments ==
    { "kill myself", "END MY LIFE", "suicidal thoughts", "Hurt Myself",
      "abuse", "hopeless", "panic", "Depressed", " ", "d", "!",
      "no point nothing matters beat me hit me violent urgent",
      "overwhelmed breakdown crisis scared terrified dying" }

RECURSIVE Concat(_)
Concat(frags) == IF frags = << >> THEN "" ELSE Head(frags) \o Concat(Tail(frags))

FragSeqs(F, n) == UNION { [1..k -> F] : k \in 0..n }

RiskMessages == { Concat(fs) : fs \in FragSeqs(RiskFragments, MaxFrags) }

(***************************************************************************)
(* Inputs of generate_response and of the /chat handler.                   *)
(***************************************************************************)
\* number of text fragments concatenated into the message of a /chat request
MaxChatFrags == 2

\* length of the longest conversation_history of a /chat request
MaxHistory == 11

Envs ==
    [LLM_PROVIDER : {PyNone, PyStr("huggingface-api"), PyStr("ollama"), PyStr("openai")},
     HF_API_KEY   : {PyNone, PyStr(""), PyStr("hf_token")}]

Generators == { ResponseGenerator_init(env) : env \in Envs }

Sentiments == {"POSITIVE", "NEGATIVE", "NEUTRAL"}

\* outcomes of the classifier call
ClassifierOutcomes ==
    { [raised |-> TRUE,  label |-> "", score |-> 0],
      [raised |-> FALSE, label |-> "POSITIVE", score |-> 999],
      [raised |-> FALSE, label |-> "NEGATIVE", score |-> 987] }

\* texts a backend may generate
GeneratedTexts ==
    { "", "  \n", "I hear you.", "User: hi\nAssistant: I hear you. ",
      "User: hi\nAssistant:", Repeat("a", ResponseLimit + 1) }

\* outcomes of the post to a backend
BackendOutcomes ==
    { Raised("ConnectionError"), Raised("Timeout"),
      Responded(503, FALSE, JNull),
      Responded(429, TRUE, JDict([error |-> JStr("Rate limit reached")])),
      Responded(204, FALSE, JNull),
      Responded(200, FALSE, JNull),
      Responded(200, TRUE, JNull),
      Responded(200, TRUE, JList(<< >>)),
      Responded(200, TRUE, JList(<< JStr("I hear you.") >>)),
      Responded(200, TRUE, JList(<< JDict(NoKeys) >>)),
      Responded(200, TRUE, JList(<< JDict([generated_text |-> JNull]) >>)),
      Responded(200, TRUE, JDict(NoKeys)),
      Responded(200, TRUE, JDict([error |-> JStr("Model is currently loading")])),
      Responded(200, TRUE, JDict([response |-> JNull])) }
    \cup { Responded(200, TRUE, JList(<< JDict([generated_text |-> JStr(t)]) >>)) :
             t \in GeneratedTexts }
    \cup { Responded(200, TRUE, JDict([response |-> JStr(t)])) : t \in GeneratedTexts }

\* the outcomes a /chat request is run against: an exception, a status other
\* than 200, and a 200 with no JSON, with a JSON object that reports an error,
\* and with a generated text in the form of either backend
ChatBackendOutcomes ==
    { Raised("Timeout"),
      Responded(503, FALSE, JNull),
      Responded(200, FALSE, JNull),
      Responded(200, TRUE, JDict([error |-> JStr("Model is currently loading")])),
      Responded(200, TRUE,
                JList(<< JDict([generated_text |-> JStr("User: hi\nAssistant: I hear you. ")]) >>)),
      Responded(200, TRUE, JDict([response |-> JStr("I hear you.")])) }

\* no post was made
NotPosted == [raised |-> FALSE, what |-> "not posted", status |-> 0,
              is_json |-> FALSE, body |-> JNull]

GenArgs ==
    [user_message : {"I had a great day today!"},
     sentiment    : Sentiments,
     context      : {_format_conversation_context(NoHistory, "I had a great day today!")}]

NoArgs == [user_message |-> "", sentiment |-> "", context |-> ""]

ChatFragments ==
    { " ", "!!", "d", Repeat("x", MaxMessageLen),
      "I had a great day today!", "I feel hopeless and want to end my life",
      "panic and crisis" }

ChatMessages == { Concat(fs) : fs \in FragSeqs(ChatFragments, MaxChatFrags) }

\* the first n turns of a conversation: user and assistant in turn, the
\* first of them a high-risk message
Turns(n) ==
    [i \in 1..n |-> [role    |-> IF i % 2 = 1 THEN "user" ELSE "assistant",
                     content |-> IF i = 1 THEN "i want to kill myself"
                                 ELSE "turn " \o ToString(i)]]

Histories == { NoHistory, History(Turns(2)), History(Turns(MaxHistory)) }

ChatRequests == [message : ChatMessages, conversation_history : Histories]

NoRequest == [message |-> "", conversation_history |-> NoHistory]

(***************************************************************************)
(* State.                                                                  *)
(***************************************************************************)
VARIABLES
    pc,               \* position of the running operation
    generator,        \* the ResponseGenerator: provider and api_key
    request,          \* /chat: the ChatRequest
    user_message,     \* /chat: request.message.strip()
    classifier_outcome, \* analyze_sentiment: what the classifier call met
    sentiment_result, \* /chat: the dict analyze_sentiment returned
    message,          \* assess_risk: the argument
    risk_indicators,  \* assess_risk: the local list, before truncation
    risk,             \* assess_risk: the returned dict
    gen_args,         \* generate_response: the arguments
    backend_outcome,  \* generate_response: what the post met
    bot_response,     \* the value of generate_response or get_crisis_response
    outcome,          \* /chat: the response of the handler
    calls,            \* number of calls of each stage
    outbound,         \* the posts made to a generation backend
    twin              \* a second /chat request: same message, other history

vars == << pc, generator, request, user_message, classifier_outcome,
           sentiment_result, message, risk_indicators, risk, gen_args,
           backend_outcome, bot_response, outcome, calls, outbound, twin >>

NoRisk == [is_high_risk |-> FALSE, risk_level |-> "", risk_indicators |-> << >>]

NoCalls == [sentiment |-> 0, classifier |-> 0, risk |-> 0, crisis |-> 0, generate |-> 0]

NoResponse == HTTPException(0, "")

\* the classifier was not called
NotClassified == [raised |-> FALSE, label |-> "", score |-> 0]

\* the frame of the second request before it has run
NoTwin ==
    [conversation_history |-> NoHistory, user_message |-> "",
     sentiment_result |-> NeutralSentiment, risk |-> NoRisk, branch |-> ""]

\* the frame of a handler before it has run
Idle ==
    /\ request = NoRequest
    /\ user_message = ""
    /\ classifier_outcome = NotClassified
    /\ sentiment_result = NeutralSentiment
    /\ outcome = NoResponse
    /\ twin = NoTwin

NothingAssessed ==
    /\ risk_indicators = << >>
    /\ risk = NoRisk

NothingGenerated ==
    /\ backend_outcome = NotPosted
    /\ bot_response = PyNone
    /\ calls = NoCalls
    /\ outbound = << >>

(***************************************************************************)
(* assess_risk applied to an arbitrary message (the /assess-risk endpoint  *)
(* passes request.message unchanged).                                      *)
(***************************************************************************)
InitRisk ==
    /\ pc = "assess_risk"
    /\ message \in RiskMessages
    /\ generator = ResponseGenerator_init([LLM_PROVIDER |-> PyNone, HF_API_KEY |-> PyNone])
    /\ gen_args = NoArgs
    /\ Idle /\ NothingAssessed /\ NothingGenerated

AssessRisk ==
    /\ pc = "assess_risk"
    /\ risk_indicators' = scan_indicators(message)
    /\ risk' = risk_result(risk_indicators')
    /\ calls' = [calls EXCEPT !.risk = @ + 1]
    /\ pc' = "risk_returned"
    /\ UNCHANGED << generator, request, user_message, classifier_outcome, sentiment_result, message,
                    gen_args, backend_outcome, bot_response, outcome, outbound, twin >>

NextRisk == AssessRisk

SpecRisk == InitRisk /\ [][NextRisk]_vars

(***************************************************************************)
(* generate_response applied to arbitrary arguments, for every generator   *)
(* the environment can configure and every outcome of the post.            *)
(***************************************************************************)
\* one call of generate_response(args): at most one post, whose outcome o is
\* one of outcomes
Generate(args, outcomes, next_pc) ==
    LET backend == backend_of(generator)
    IN  \E o \in (IF backend = "none" THEN {NotPosted} ELSE outcomes) :
        \E r \in Choices :
            /\ gen_args' = args
            /\ backend_outcome' = o
            /\ bot_response' = generate_response(generator, args.user_message,
                                                 args.sentiment, args.context, o, r)
            /\ outbound' = IF backend = "none" THEN outbound
                           ELSE Append(outbound,
                                       [backend |-> backend,
                                        prompt  |-> _build_user_prompt(args.user_message,
                                                                       args.context)])
            /\ calls' = [calls EXCEPT !.generate = @ + 1]
            /\ pc' = next_pc

InitGen ==
    /\ pc = "generate_response"
    /\ generator \in Generators
    /\ gen_args \in GenArgs
    /\ message = ""
    /\ Idle /\ NothingAssessed /\ NothingGenerated

GenerateResponse ==
    /\ pc = "generate_response"
    /\ Generate(gen_args, BackendOutcomes, "generated")
    /\ UNCHANGED << generator, request, user_message, classifier_outcome, sentiment_result, message,
                    risk_indicators, risk, outcome, twin >>

NextGen == GenerateResponse

SpecGen == InitGen /\ [][NextGen]_vars

(***************************************************************************)
(* The /chat handler, one request.                                         *)
(***************************************************************************)
Init ==
    /\ pc = "chat"
    /\ generator \in Generators
    /\ request \in ChatRequests
    /\ user_message = ""
    /\ classifier_outcome = NotClassified
    /\ sentiment_result = NeutralSentiment
    /\ message = ""
    /\ gen_args = NoArgs
    /\ outcome = NoResponse
    /\ twin = NoTwin
    /\ NothingAssessed /\ NothingGenerated

\* strip and validate: a 400 ends the request
validate_step ==
    /\ pc = "chat"
    /\ user_message' = Strip(request.message)
    /\ LET raised == validate(request.message)
       IN  IF raised.status # 0
              THEN outcome' = raised /\ pc' = "done"
              ELSE outcome' = outcome /\ pc' = "sentiment"
    /\ UNCHANGED << generator, request, classifier_outcome, sentiment_result, message,
                    risk_indicators, risk, gen_args, backend_outcome, bot_response,
                    calls, outbound >>

ChatValidate == validate_step /\ UNCHANGED twin

\* 1. sentiment analysis; c is what the classifier does with the text
sentiment_step(c) ==
    /\ pc = "sentiment"
    /\ LET text == sentiment_input(request, user_message)
       IN  /\ sentiment_result' = analyze_sentiment(text, c)
           /\ classifier_outcome' = IF sentiment_skips_classifier(text)
                                       THEN NotClassified ELSE c
           /\ calls' = [calls EXCEPT
                          !.sentiment = @ + 1,
                          !.classifier = @ + (IF sentiment_skips_classifier(text)
                                                 THEN 0 ELSE 1)]
    /\ pc' = "risk"
    /\ UNCHANGED << generator, request, user_message, message, risk_indicators, risk,
                    gen_args, backend_outcome, bot_response, outcome, outbound >>

ChatSentiment == (\E c \in ClassifierOutcomes : sentiment_step(c)) /\ UNCHANGED twin

\* 2. risk detection, and 3. the branch on is_high_risk
risk_step ==
    /\ pc = "risk"
    /\ message' = risk_input(request, user_message)
    /\ risk_indicators' = scan_indicators(message')
    /\ risk' = risk_result(risk_indicators')
    /\ calls' = [calls EXCEPT !.risk = @ + 1]
    /\ pc' = after_risk(risk')
    /\ UNCHANGED << generator, request, user_message, classifier_outcome, sentiment_result, gen_args,
                    backend_outcome, bot_response, outcome, outbound >>

ChatRisk == risk_step /\ UNCHANGED twin

\* 3. the high-risk branch
ChatCrisis ==
    /\ pc = "crisis"
    /\ bot_response' = PyStr(get_crisis_response)
    /\ calls' = [calls EXCEPT !.crisis = @ + 1]
    /\ pc' = "build"
    /\ UNCHANGED << generator, request, user_message, classifier_outcome, sentiment_result, message,
                    risk_indicators, risk, gen_args, backend_outcome, outcome, outbound,
                    twin >>

\* 4. the other branch: the context is formatted and the generator called
ChatGenerate ==
    /\ pc = "generate"
    /\ Generate([user_message |-> user_message,
                 sentiment    |-> sentiment_result.label,
                 context      |-> _format_conversation_context(
                                      request.conversation_history, user_message)],
                ChatBackendOutcomes, "build")
    /\ UNCHANGED << generator, request, user_message, classifier_outcome, sentiment_result, message,
                    risk_indicators, risk, outcome, twin >>

\* 5. the response is built, or the except clause answers 500
ChatBuild ==
    /\ pc = "build"
    /\ outcome' = build_response(user_message, sentiment_result, risk, bot_response)
    /\ pc' = "done"
    /\ UNCHANGED << generator, request, user_message, classifier_outcome, sentiment_result, message,
                    risk_indicators, risk, gen_args, backend_outcome, bot_response,
                    calls, outbound, twin >>

Next ==
    \/ ChatValidate
    \/ ChatSentiment
    \/ ChatRisk
    \/ ChatCrisis
    \/ ChatGenerate
    \/ ChatBuild

Spec == Init /\ [][Next]_vars

(***************************************************************************)
(* Two /chat requests side by side: the second carries the same message    *)
(* and another conversation_history, and is served by the same handler in  *)
(* step with the first up to the branch.  The classifier is a function of  *)
(* its input: given the same text it does the same thing.                  *)
(***************************************************************************)
\* the requests served side by side: the messages of ChatMessages that are
\* built without the filler of MaxMessageLen characters
TwinFragments == ChatFragments \ { Repeat("x", MaxMessageLen) }

TwinMessages == { Concat(fs) : fs \in FragSeqs(TwinFragments, MaxChatFrags) }

TwinRequests == [message : TwinMessages, conversation_history : Histories]

twin_request == [message |-> request.message,
                 conversation_history |-> twin.conversation_history]

InitTwin ==
    /\ pc = "chat"
    /\ generator \in Generators
    /\ request \in TwinRequests
    /\ user_message = ""
    /\ classifier_outcome = NotClassified
    /\ sentiment_result = NeutralSentiment
    /\ message = ""
    /\ gen_args = NoArgs
    /\ outcome = NoResponse
    /\ \E h \in Histories \ {request.conversation_history} :
          twin = [NoTwin EXCEPT !.conversation_history = h]
    /\ NothingAssessed /\ NothingGenerated

TwinValidate ==
    /\ validate_step
    /\ twin' = [twin EXCEPT !.user_message = Strip(twin_request.message)]

TwinSentiment ==
    \E c, d \in ClassifierOutcomes :
        /\ (sentiment_input(twin_request, twin.user_message)
               = sentiment_input(request, user_message)) => d = c
        /\ sentiment_step(c)
        /\ twin' = [twin EXCEPT !.sentiment_result =
                       analyze_sentiment(sentiment_input(twin_request,
                                                         twin.user_message), d)]

TwinRisk ==
    /\ risk_step
    /\ \E assessed \in { risk_result(scan_indicators(
                              risk_input(twin_request, twin.user_message))) } :
          twin' = [twin EXCEPT !.risk = assessed, !.branch = after_risk(assessed)]

NextTwin ==
    \/ TwinValidate
    \/ TwinSentiment
    \/ TwinRisk
    \/ ChatCrisis
    \/ ChatGenerate
    \/ ChatBuild

SpecTwin == InitTwin /\ [][NextTwin]_vars

(***************************************************************************)
(* Vocabulary of the properties of assess_risk.                            *)
(***************************************************************************)
Range(seq) == { seq[i] : i \in 1..Len(seq) }

PhrasesOf(category) ==
    UNION { Range(high_risk_keywords[c].keywords) :
              c \in { d \in 1..Len(high_risk_keywords) :
                         high_risk_keywords[d].category = category } }

HighRiskCategories ==
    { high_risk_keywords[c].category : c \in 1..Len(high_risk_keywords) }

AllHighRiskPhrases == UNION { PhrasesOf(c) : c \in HighRiskCategories }

\* the phrase stands in the lower-cased text t with no word character next
\* to it on either side
OccursAsWords(t, phrase) ==
    \E i \in 1..(Len(t) - Len(phrase) + 1) :
        /\ SubSeq(t, i, i + Len(phrase) - 1) = phrase
        /\ (i = 1 \/ CharAt(t, i - 1) \notin WordChars)
        /\ (i + Len(phrase) - 1 = Len(t) \/ CharAt(t, i + Len(phrase)) \notin WordChars)

PhrasesIn(text, phrases) ==
    LET t == Lower(text) IN { k \in phrases : OccursAsWords(t, k) }

\* the indicator is tagged with the category: it reads "<category>: ..."
HasCategory(indicator, category) ==
    /\ Len(indicator) >= Len(category) + 2
    /\ SubSeq(indicator, 1, Len(category) + 2) = category \o ": "

SomeIndicatorOf(indicators, categories) ==
    \E i \in 1..Len(indicators) : \E c \in categories : HasCategory(indicators[i], c)

Returned == pc = "risk_returned"

(***************************************************************************)
(* C1: every message in which a phrase of the suicide category stands at   *)
(* word boundaries, in any letter case, is assessed is_high_risk = TRUE,   *)
(* risk_level = "high", and the returned list, of at most five entries,    *)
(* holds an indicator tagged "suicide", whatever else the message holds.   *)
(***************************************************************************)
C1_SuicidePhraseIsHigh ==
    (Returned /\ PhrasesIn(message, PhrasesOf("suicide")) # {})
        => /\ risk.is_high_risk = TRUE
           /\ risk.risk_level = "high"
           /\ Len(risk.risk_indicators) <= IndicatorLimit
           /\ SomeIndicatorOf(risk.risk_indicators, {"suicide"})

\* an upper-case suicide phrase among more matches than the list may return
C1_Witness ==
    /\ Returned
    /\ PhrasesIn(message, PhrasesOf("suicide")) # {}
    /\ message # Lower(message)
    /\ Len(risk_indicators) > IndicatorLimit

(***************************************************************************)
(* C2, as stated: whenever a phrase of any category of high_risk_keywords  *)
(* matched, the result has is_high_risk = TRUE.                            *)
(***************************************************************************)
C2_AnyHighRiskPhraseIsHigh ==
    (Returned /\ PhrasesIn(message, AllHighRiskPhrases) # {})
        => risk.is_high_risk = TRUE

(***************************************************************************)
(* C2, amended: whenever a phrase of the suicide or the self_harm category *)
(* matched, the result has is_high_risk = TRUE.                            *)
(***************************************************************************)
C2_SuicideOrSelfHarmPhraseIsHigh ==
    (Returned /\ PhrasesIn(message, PhrasesOf("suicide") \cup PhrasesOf("self_harm")) # {})
        => risk.is_high_risk = TRUE

\* a self_harm phrase and no suicide phrase
C2_Witness ==
    /\ Returned
    /\ PhrasesIn(message, PhrasesOf("self_harm")) # {}
    /\ PhrasesIn(message, PhrasesOf("suicide")) = {}
    /\ risk.is_high_risk = TRUE

(***************************************************************************)
(* C7: a message matching exactly one medium-risk keyword and no high-risk *)
(* phrase is tiered "low"; a message matching exactly two distinct         *)
(* medium-risk keywords and no high-risk phrase is tiered "medium", with   *)
(* is_high_risk = FALSE.                                                   *)
(***************************************************************************)
C7_MediumKeywordTiers ==
    (Returned /\ PhrasesIn(message, AllHighRiskPhrases) = {})
        => LET n == Cardinality(PhrasesIn(message, Range(medium_risk_keywords)))
           IN  /\ n = 1 => risk.risk_level = "low"
               /\ n = 2 => (risk.risk_level = "medium" /\ risk.is_high_risk = FALSE)

\* exactly two medium-risk keywords, no high-risk phrase
C7_Witness ==
    /\ Returned
    /\ PhrasesIn(message, AllHighRiskPhrases) = {}
    /\ Cardinality(PhrasesIn(message, Range(medium_risk_keywords))) = 2
    /\ risk.risk_level = "medium"

(***************************************************************************)
(* C8: is_high_risk holds exactly when the returned list, after the cut to *)
(* five entries, holds an indicator tagged "suicide" or "self_harm", and   *)
(* is_high_risk implies risk_level = "high".                               *)
(***************************************************************************)
C8_HighIffSuicideOrSelfHarmReturned ==
    Returned =>
        /\ risk.is_high_risk = SomeIndicatorOf(risk.risk_indicators, {"suicide", "self_harm"})
        /\ risk.is_high_risk => risk.risk_level = "high"

\* a high-risk result whose list was cut and whose only deciding indicator
\* is of the self_harm category
C8_Witness ==
    /\ Returned
    /\ risk.is_high_risk = TRUE
    /\ Len(risk_indicators) > IndicatorLimit
    /\ ~SomeIndicatorOf(risk_indicators, {"suicide"})

(***************************************************************************)
(* C9: the returned list has at most five entries, however many phrases    *)
(* match, and it is a prefix, in scan order, of the full list of matches.  *)
(***************************************************************************)
C9_ReturnedListIsPrefixOfFive ==
    Returned =>
        /\ Len(risk.risk_indicators) <= 5
        /\ Len(risk.risk_indicators) <= Len(risk_indicators)
        /\ risk.risk_indicators = SubSeq(risk_indicators, 1, Len(risk.risk_indicators))

\* more than five medium-risk matches
C9_Witness ==
    /\ Returned
    /\ Len(risk_indicators) > 5
    /\ ~SomeIndicatorOf(risk_indicators, HighRiskCategories)
    /\ Len(risk.risk_indicators) = 5

(***************************************************************************)
(* Vocabulary of the properties of generate_response and of /chat.         *)
(***************************************************************************)
\* the post did not bring a 2xx response: unreachable, timed out, or non-2xx
BackendFailed(o) == o.raised \/ o.status \notin 200..299

\* the table of the sentiment polarity: NEGATIVE, or POSITIVE for the rest
TableOf(sentiment) ==
    IF sentiment = "NEGATIVE" THEN Range(fallback_responses["NEGATIVE"])
    ELSE Range(fallback_responses["POSITIVE"])

\* empty or made of whitespace only
IsBlank(text) == \A i \in 1..Len(text) : CharAt(text, i) \in Whitespace

\* the request passed the validation of the handler
Validated == ~IsBlank(request.message) /\ Len(Strip(request.message)) <= 5000

(***************************************************************************)
(* C3: in /chat, when the risk assessment of a validated message has       *)
(* is_high_risk = TRUE, generate_response is never invoked for the request *)
(* (no post to any backend) and bot_response is exactly the text of        *)
(* get_crisis_response, whatever the message, sentiment and history.       *)
(***************************************************************************)
C3_HighRiskNeverGenerates ==
    (calls.risk = 1 /\ risk.is_high_risk)
        => /\ calls.generate = 0
           /\ outbound = << >>
           /\ pc = "done" => /\ outcome.status = 200
                             /\ outcome.body.bot_response = get_crisis_response

\* a high-risk request answered, with a positive sentiment, a long history
\* and a generator that has a backend
C3_Witness ==
    /\ pc = "done"
    /\ risk.is_high_risk
    /\ sentiment_result.label = "POSITIVE"
    /\ Len(request.conversation_history.items) > HistoryLimit
    /\ backend_of(generator) # "none"
    /\ outcome.body.bot_response = get_crisis_response

(***************************************************************************)
(* C4: generate_response always returns a non-empty string, for every      *)
(* provider and every outcome of the backend call.                         *)
(***************************************************************************)
C4_AlwaysNonEmptyString ==
    pc = "generated" => (bot_response.t = "str" /\ bot_response.s # "")

(***************************************************************************)
(* C5: when the backend fails (unreachable, timeout, non-2xx),             *)
(* generate_response returns a template of the fallback table of the       *)
(* requested sentiment: NEGATIVE for NEGATIVE, POSITIVE for any other.     *)
(***************************************************************************)
C5_FallbackMatchesSentiment ==
    (pc = "generated" /\ backend_of(generator) # "none" /\ BackendFailed(backend_outcome))
        => (bot_response.t = "str" /\ bot_response.s \in TableOf(gen_args.sentiment))

(***************************************************************************)
(* C6: every /chat request whose trimmed message is non-empty and of at    *)
(* most 5000 characters ends in a ChatResponse, never in the 500,          *)
(* whatever the classifier and the backend do.                             *)
(***************************************************************************)
C6_ValidRequestGetsChatResponse ==
    (pc = "done" /\ Validated) => outcome.status = 200

TrackedKeywords == AllHighRiskPhrases \cup Range(medium_risk_keywords)

\* the indicators of the list that name the keyword, under any tag
IndicatorsNaming(indicators, keyword) ==
    { i \in 1..Len(indicators) :
        /\ Len(indicators[i]) >= Len(keyword) + 2
        /\ SubSeq(indicators[i], Len(indicators[i]) - Len(keyword) - 1, Len(indicators[i]))
               = ": " \o keyword }

C13_KeywordMatchIsWordBoundaryExact ==
    Returned =>
        LET t == Lower(message)
        IN  \A k \in TrackedKeywords :
                /\ _keyword_match(t, k) = OccursAsWords(t, k)
                /\ ~OccursAsWords(t, k) => IndicatorsNaming(risk_indicators, k) = {}

\* "abuse" inside a larger word and nowhere else
C13_Witness ==
    /\ Returned
    /\ Contains(Lower(message), "abuse")
    /\ ~OccursAsWords(Lower(message), "abuse")
    /\ IndicatorsNaming(risk_indicators, "abuse") = {}

(***************************************************************************)
(* C14: the medium-risk list is scanned exactly when the high-risk scan    *)
(* found nothing, so the indicators of one result are never mixed, and a   *)
(* message that matches only high-risk phrases outside the suicide and     *)
(* self_harm categories, with two or more medium-risk keywords, is tiered  *)
(* "low".                                                                  *)
(***************************************************************************)
C14_MediumScanOnlyWithoutHighMatch ==
    Returned =>
        LET high   == PhrasesIn(message, AllHighRiskPhrases)
            medium == PhrasesIn(message, Range(medium_risk_keywords))
            tagged == { i \in 1..Len(risk_indicators) :
                          HasCategory(risk_indicators[i], "medium_risk") }
        IN  /\ high # {} => tagged = {}
            /\ high = {} => /\ Cardinality(tagged) = Cardinality(medium)
                            /\ \A k \in medium : IndicatorsNaming(risk_indicators, k) # {}
            /\ tagged = {} \/ tagged = 1..Len(risk_indicators)
            /\ (/\ high # {}
                /\ high \cap (PhrasesOf("suicide") \cup PhrasesOf("self_harm")) = {}
                /\ Cardinality(medium) >= 2)
                   => (risk.risk_level = "low" /\ risk.is_high_risk = FALSE)

\* an abuse phrase with two or more medium-risk keywords
C14_Witness ==
    /\ Returned
    /\ PhrasesIn(message, AllHighRiskPhrases) = {"abuse"}
    /\ Cardinality(PhrasesIn(message, Range(medium_risk_keywords))) >= 2
    /\ risk.risk_level = "low"

(***************************************************************************)
(* C16: assess_risk returns one of (TRUE, "high"), (FALSE, "medium"),      *)
(* (FALSE, "low"), so risk_level = "high" exactly when is_high_risk; and   *)
(* no message gives the indicator "medium_risk: suicidal thoughts".        *)
(***************************************************************************)
C16_ThreeTiersAndDeadKeyword ==
    Returned =>
        /\ << risk.is_high_risk, risk.risk_level >>
              \in { << TRUE, "high" >>, << FALSE, "medium" >>, << FALSE, "low" >> }
        /\ \A i \in 1..Len(risk_indicators) :
              risk_indicators[i] # "medium_risk: suicidal thoughts"

\* a message in which "suicidal thoughts" stands as words
C16_Witness ==
    /\ Returned
    /\ OccursAsWords(Lower(message), "suicidal thoughts")
    /\ risk.is_high_risk = TRUE
    /\ risk.risk_level = "high"

(***************************************************************************)
(* C15: a /chat request makes at most one post to a generation backend:    *)
(* generate_response tries the configured backend once and on failure goes *)
(* straight to the fallback table, with no second try and no try of the    *)
(* other backend; with provider "fallback", or huggingface-api without a   *)
(* key, it makes no post.                                                  *)
(***************************************************************************)
AnyTemplate ==
    Range(fallback_responses["NEGATIVE"]) \cup Range(fallback_responses["POSITIVE"])

HasKey == generator.api_key.t = "str" /\ generator.api_key.s # ""

C15_AtMostOnePost ==
    /\ Len(outbound) <= 1
    /\ calls.generate <= 1
    /\ calls.generate = 0 => outbound = << >>
    /\ calls.generate = 1 =>
          /\ generator.provider = "fallback" => outbound = << >>
          /\ (generator.provider = "huggingface-api" /\ ~HasKey) => outbound = << >>
          /\ (generator.provider = "huggingface-api" /\ HasKey)
                => (Len(outbound) = 1 /\ outbound[1].backend = "huggingface")
          /\ generator.provider = "ollama"
                => (Len(outbound) = 1 /\ outbound[1].backend = "ollama")
          /\ (outbound # << >> /\ BackendFailed(backend_outcome))
                => (bot_response.t = "str" /\ bot_response.s \in AnyTemplate)

\* a request answered after its one post failed
C15_Witness ==
    /\ pc = "done"
    /\ Len(outbound) = 1
    /\ BackendFailed(backend_outcome)
    /\ outcome.status = 200
    /\ outcome.body.bot_response \in AnyTemplate


(***************************************************************************)
(* Properties of the /chat handler under a failing classifier, and of two  *)
(* requests that differ in their history only.                             *)
(***************************************************************************)
SupportiveSummary == "Conversation flowing normally - supportive mode"
HeightenedSummary == "User expressing difficult emotions - heightened empathy mode"

\* C11: when the sentiment classifier fails on a validated message,
\* analyze_sentiment yields the sentinel NEUTRAL / 0.5 and the request is not
\* aborted: risk assessment and one of the crisis and generate branches run
\* and a ChatResponse is assembled whose summary is the supportive-mode
\* string; the heightened-empathy string goes with the label NEGATIVE only.
C11_ClassifierFailureIsAbsorbed ==
    /\ (pc = "done" /\ calls.classifier = 1 /\ classifier_outcome.raised) =>
          /\ sentiment_result = NeutralSentiment
          /\ calls.risk = 1
          /\ calls.crisis + calls.generate = 1
          /\ outcome.status = 200
          /\ outcome.body.sentiment = NeutralSentiment
          /\ outcome.body.conversation_summary = SupportiveSummary
    /\ (pc = "done" /\ outcome.status = 200) =>
          (outcome.body.conversation_summary = HeightenedSummary
             <=> sentiment_result.label = "NEGATIVE")

\* the entries of a history that reach the generator: the last HistoryLimit
KeptEntries(h) ==
    IF h.none THEN << >>
    ELSE LET n == Len(h.items)
             k == Min(n, HistoryLimit)
         IN  [i \in 1..k |-> h.items[n - k + i]]

RECURSIVE RenderedUpTo(_, _)
RenderedUpTo(entries, k) ==
    IF k = 0 THEN ""
    ELSE RenderedUpTo(entries, k - 1)
         \o (IF entries[k].role = "user" THEN "User: " ELSE "Assistant: ")
         \o entries[k].content \o "\n"

ExpectedContext(h, current) ==
    "Recent conversation:\n" \o RenderedUpTo(KeptEntries(h), Len(KeptEntries(h)))
    \o "Current user message: " \o current

\* C12: two /chat requests with the same message and different
\* conversation_history (none, a short one, one longer than ten entries) get
\* the same sentiment label and score, the same is_high_risk and risk_level,
\* and take the same branch; the history reaches the generator only, as at
\* most its last ten entries in their order followed by the current message.
C12_HistoryNeverInfluencesRiskOrSentiment ==
    (twin.conversation_history # request.conversation_history) =>
        /\ calls.sentiment = 1 =>
              /\ twin.sentiment_result.label = sentiment_result.label
              /\ twin.sentiment_result.score = sentiment_result.score
        /\ calls.risk = 1 =>
              /\ twin.risk.is_high_risk = risk.is_high_risk
              /\ twin.risk.risk_level = risk.risk_level
              /\ twin.branch \in {"crisis", "generate"}
              /\ message = user_message
        /\ (pc = "crisis" \/ calls.crisis = 1) => twin.branch = "crisis"
        /\ (pc = "generate" \/ calls.generate = 1) => twin.branch = "generate"
        /\ calls.generate = 1 =>
              /\ gen_args.user_message = user_message
              /\ gen_args.context =
                    ExpectedContext(request.conversation_history, user_message)
              /\ \A i \in 1..Len(outbound) :
                    outbound[i].prompt =
                        _build_user_prompt(user_message, gen_args.context)

\* a request with more than ten entries, the first of them a suicide phrase,
\* and its twin with no history have both been answered by the generator
C12_Witness ==
    /\ pc = "done"
    /\ Len(request.conversation_history.items) > HistoryLimit
    /\ OccursAsWords(request.conversation_history.items[1].content, "kill myself")
    /\ twin.conversation_history.none
    /\ calls.generate = 1
    /\ twin.branch = "generate"
    /\ Len(KeptEntries(request.conversation_history)) = HistoryLimit
    /\ outcome.status = 200

====
